---- MODULE Spec2Model ----
(***************************************************************************)
(* A model of the phase-based operation machinery of gravity:              *)
(*   - the reconnect watcher of the command line tool (watchReconnects),   *)
(*   - the plan engine that executes, resumes and rolls back phases,       *)
(*   - the install phase resolver (FSMSpec),                               *)
(*   - the error classifier of lib/utils,                                  *)
(*   - the helpers of the command line tool: updateCommandWithFlags,       *)
(*     loadRPCCredentials and ConfigureNoProxy,                            *)
(*   - the openebs phase executor and the node disk manager configuration. *)
(* Every component has its own variables, its own initial predicate and    *)
(* its own next-state relation; a specification runs one component and     *)
(* leaves the variables of the others parked at their initial values.      *)
(***************************************************************************)
EXTENDS Integers, Sequences, FiniteSets, TLC

VARIABLES
    \* ---- reconnect watcher
    watchCh,        \* events sent on the watch channel and not yet received
    chClosed,       \* the sender has closed the watch channel
    sent,           \* history: every event sent so far, in order
    received,       \* history: the events the watch goroutine has received
    watchPc,        \* "init": watchReconnects not called, "recv": goroutine in the range loop, "done": goroutine returned
    cancelCalls,    \* number of invocations of the supplied cancel function
    ctxDone         \* the context handed to watchReconnects has been cancelled

VARIABLES
    \* ---- plan engine: the persisted plan
    deps,           \* phase -> the phases it declares as dependencies
    phaseState,     \* phase -> its persisted state
    finishOrder,    \* phases in the order of their persisted end timestamps
    \* ---- plan engine: the running process
    engineMode,     \* "new", "running", "halted", "rollback" or "unwound"
    runKind,        \* the last operation: "none", "execute", "resume", "resumeAfterCrash" or "rollback"
    crashed,        \* the last run was ended by a crash
    cursor,         \* position in the plan of the next phase the run visits (1 when no run)
    task,           \* phase -> the step its in-flight executor is at, or "none"
    rollbackQueue,  \* phases the rollback walk still has to visit
    operations,     \* number of Resume and Rollback operations so far
    \* ---- plan engine: history of the last operation
    snapshot,       \* the persisted states when the last operation started
    visited,        \* phases the last run moved to InProgress, in order
    executed,       \* phases whose Execute the last run invoked
    preFailed,      \* phases whose PreCheck failed in the last run
    rollbackLog,    \* phases whose Rollback the last walk invoked, in order
    rollbackErrors  \* phases whose Rollback returned an error in the last walk

VARIABLES
    \* ---- install phase resolver
    reqID,          \* the identifier of the phase to resolve
    reqEnv,         \* which collaborators fail while the phase is resolved
    resolution,     \* what the resolver returned: the factory it invoked, the executor, the error and the phase the error names
    resolverPc      \* "request": not resolved yet, "done": resolved

VARIABLES
    \* ---- error classifier
    errIn,          \* the error handed to the classifier
    transientOut,   \* what IsTransientClusterError returned for it
    reconnectOut,   \* what ShouldReconnectPeer returned for it
    cancelledOut,   \* what IsContextCancelledError returned for it
    unavailableOut  \* what IsClusterUnavailableError returned for it

VARIABLES
    \* ---- command line rewriting (updateCommandWithFlags)
    cmdIn,          \* the arguments: what the parser makes of the command, the caller's flagsToAdd
    cmdOut          \* the outcome: the returned line or error, and the caller's flagsToAdd afterwards

VARIABLES
    \* ---- openebs phase executor
    cluster,        \* the Kubernetes cluster: whether the OpenEBS namespace and the NDM configuration map exist
    calls           \* history: the invocations of the executor, with the cluster before and after

VARIABLES
    \* ---- node disk manager configuration (NDMConfig)
    ndmConfig,      \* the configuration: its FilterConfigs
    ndmResource,    \* the persistent storage resource handed to Apply
    ndmApplied      \* Apply has been called

VARIABLES
    \* ---- RPC credentials (loadRPCCredentials)
    credIn,         \* the address and which collaborator fails
    credOut         \* the address the package client was created for, and the outcome

VARIABLES
    \* ---- proxy configuration (ConfigureNoProxy)
    initialEnv,     \* the environment the process is started with
    runs            \* history: the environment after ConfigureNoProxy, one entry per start of the process

watchVars == <<watchCh, chClosed, sent, received, watchPc, cancelCalls, ctxDone>>

planVars == <<deps, phaseState, finishOrder>>

processVars == <<engineMode, runKind, crashed, cursor, task, rollbackQueue, operations>>

historyVars == <<snapshot, visited, executed, preFailed, rollbackLog, rollbackErrors>>

engineVars == <<planVars, processVars, historyVars>>

resolverVars == <<reqID, reqEnv, resolution, resolverPc>>

classifierVars == <<errIn, transientOut, reconnectOut, cancelledOut, unavailableOut>>

commandVars == <<cmdIn, cmdOut>>

openebsVars == <<cluster, calls>>

ndmVars == <<ndmConfig, ndmResource, ndmApplied>>

credentialsVars == <<credIn, credOut>>

proxyVars == <<initialEnv, runs>>

toolVars == <<commandVars, openebsVars, ndmVars, credentialsVars, proxyVars>>

vars == <<watchVars, engineVars, resolverVars, classifierVars, toolVars>>

\* What the actions of one component leave alone.
notWatchVars == <<engineVars, resolverVars, classifierVars, toolVars>>

notEngineVars == <<watchVars, resolverVars, classifierVars, toolVars>>

notResolverVars == <<watchVars, engineVars, classifierVars, toolVars>>

notClassifierVars == <<watchVars, engineVars, resolverVars, toolVars>>

notCommandVars == <<watchVars, engineVars, resolverVars, classifierVars, openebsVars, ndmVars, credentialsVars, proxyVars>>

notOpenebsVars == <<watchVars, engineVars, resolverVars, classifierVars, commandVars, ndmVars, credentialsVars, proxyVars>>

notNdmVars == <<watchVars, engineVars, resolverVars, classifierVars, commandVars, openebsVars, credentialsVars, proxyVars>>

notProxyVars == <<watchVars, engineVars, resolverVars, classifierVars, commandVars, openebsVars, ndmVars, credentialsVars>>

notCredentialsVars == <<watchVars, engineVars, resolverVars, classifierVars, commandVars, openebsVars, ndmVars, proxyVars>>

(***************************************************************************)
(* Reconnect watcher                                                       *)
(***************************************************************************)

\* Bound: number of events the RPC layer sends on one watch subscription.
MaxEvents == 3

NoError == "nil"

Peers == {"10.0.0.5", "10.0.0.6"}

WatchErrors == {NoError, "connection lost"}

\* rpcserver.WatchEvent: the peer and the reconnect error (nil on success).
WatchEvent == [Peer : Peers, Error : WatchErrors]

WatchParked ==
    /\ watchCh = <<>>
    /\ chClosed = FALSE
    /\ sent = <<>>
    /\ received = <<>>
    /\ watchPc = "init"
    /\ cancelCalls = 0
    /\ ctxDone = FALSE

\* The body of the range loop for one received event, with a bug: the
\* goroutine calls cancel but keeps consuming.
HandleEventNoReturn(event) ==
    IF event.Error = NoError
    THEN /\ watchPc' = "recv"
         /\ cancelCalls' = cancelCalls
    ELSE /\ cancelCalls' = cancelCalls + 1
         /\ watchPc' = "recv"

\* The body of the range loop for one received event: a nil error continues
\* the loop, anything else logs, calls cancel() and returns.
HandleEvent(event) ==
    IF event.Error = NoError
    THEN /\ watchPc' = "recv"
         /\ cancelCalls' = cancelCalls
    ELSE /\ cancelCalls' = cancelCalls + 1
         /\ watchPc' = "done"

\* watchReconnects: spawns the goroutine and returns.
WatchReconnects ==
    /\ watchPc = "init"
    /\ watchPc' = "recv"
    /\ UNCHANGED <<watchCh, chClosed, sent, received, cancelCalls, ctxDone>>
    /\ UNCHANGED notWatchVars

\* The RPC layer sends an event on the channel.
SendEvent ==
    /\ ~chClosed
    /\ Len(sent) < MaxEvents
    /\ \E e \in WatchEvent :
          /\ watchCh' = Append(watchCh, e)
          /\ sent' = Append(sent, e)
    /\ UNCHANGED <<chClosed, received, watchPc, cancelCalls, ctxDone>>
    /\ UNCHANGED notWatchVars

\* The RPC layer closes the channel.
CloseChannel ==
    /\ ~chClosed
    /\ chClosed' = TRUE
    /\ UNCHANGED <<watchCh, sent, received, watchPc, cancelCalls, ctxDone>>
    /\ UNCHANGED notWatchVars

\* The caller cancels the context it passed to watchReconnects.
CancelContext ==
    /\ ~ctxDone
    /\ ctxDone' = TRUE
    /\ UNCHANGED <<watchCh, chClosed, sent, received, watchPc, cancelCalls>>
    /\ UNCHANGED notWatchVars

\* One iteration of `for event := range watchCh` that receives an event.
ReceiveEvent ==
    /\ watchPc = "recv"
    /\ watchCh # <<>>
    /\ received' = Append(received, Head(watchCh))
    /\ watchCh' = Tail(watchCh)
    /\ HandleEvent(Head(watchCh))
    /\ UNCHANGED <<chClosed, sent, ctxDone>>
    /\ UNCHANGED notWatchVars

\* The range loop ends: the channel is closed and drained.
ReceiveClosed ==
    /\ watchPc = "recv"
    /\ watchCh = <<>>
    /\ chClosed
    /\ watchPc' = "done"
    /\ UNCHANGED <<watchCh, chClosed, sent, received, cancelCalls, ctxDone>>
    /\ UNCHANGED notWatchVars

WatchNext ==
    \/ WatchReconnects
    \/ SendEvent
    \/ CloseChannel
    \/ CancelContext
    \/ ReceiveEvent
    \/ ReceiveClosed

\* Positions of the received events that carry an error.
ErrorPositions == {i \in DOMAIN received : received[i].Error # NoError}

\* C1: cancel is invoked exactly once when an event with a non-nil error has
\* been received and never otherwise: not before the first such event, not
\* for events with a nil error, and nothing is consumed after the first
\* error event; the goroutine stops only on an error event or on a closed,
\* drained channel, and it receives the events in the order they were sent.
C1_CancelOnceOnFirstError ==
    /\ cancelCalls = (IF ErrorPositions # {} THEN 1 ELSE 0)
    /\ \A i \in ErrorPositions : i = Len(received)
    /\ (ErrorPositions # {}) => watchPc = "done"
    /\ (watchPc = "done" /\ ErrorPositions = {}) => (chClosed /\ watchCh = <<>>)
    /\ Len(received) <= Len(sent)
    /\ \A i \in DOMAIN received : received[i] = sent[i]

\* The spec's scenario: a heartbeat, then an error event for peer 10.0.0.5,
\* with a further event still queued behind it.
C1_Witness ==
    /\ Len(received) = 2
    /\ received[1].Error = NoError
    /\ received[2] = [Peer |-> "10.0.0.5", Error |-> "connection lost"]
    /\ watchCh # <<>>
    /\ cancelCalls = 1
    /\ watchPc = "done"

\* No event sent so far carries an error.
NoErrorSent == \A i \in DOMAIN sent : sent[i].Error = NoError

\* C14 as claimed: the watch goroutine eventually returns, without a call of
\* cancel, when the channel is closed without an error event having been
\* sent, and also when the context given to watchReconnects is cancelled
\* while the channel stays open and idle.
C14_WatchTerminates ==
    /\ [](( /\ watchPc = "recv"
            /\ chClosed
            /\ NoErrorSent) => <>(watchPc = "done" /\ cancelCalls = 0))
    /\ [](( /\ watchPc = "recv"
            /\ ctxDone
            /\ [](~chClosed /\ watchCh = <<>>)) => <>(watchPc = "done" /\ cancelCalls = 0))

\* The context has been cancelled and the goroutine is still in the range
\* loop, on an open channel with nothing to receive.
C14_Witness ==
    /\ watchPc = "recv"
    /\ ctxDone
    /\ ~chClosed
    /\ watchCh = <<>>
    /\ received # <<>>
    /\ cancelCalls = 0

(***************************************************************************)
(* Plan engine.  The engine itself (lib/fsm) is not among the sources; it  *)
(* is modelled from the design document: phases carry one of five states,  *)
(* a phase is runnable when its dependencies are Completed, a run visits   *)
(* the phases in plan order and starts the runnable ones, independent      *)
(* phases execute concurrently, every state change is persisted at once,   *)
(* and the rollback walk visits the Completed and Failed phases in the     *)
(* reverse of the order in which they finished.                            *)
(***************************************************************************)

\* Bound: number of phases of the plan.
NumPhases == 3

\* Bound: number of Resume and Rollback operations that follow the first
\* Execute of a plan.
MaxOperations == 2

\* A phase is named by its position in the plan tree.
Phases == 1..NumPhases

PhaseStates == {"Unstarted", "InProgress", "Completed", "Failed", "RolledBack"}

\* The plans: a phase depends on phases listed before it in the plan tree.
Plans == {d \in [Phases -> SUBSET Phases] : \A p \in Phases : d[p] \subseteq 1..(p - 1)}

Reverse(s) == [i \in 1..Len(s) |-> s[Len(s) + 1 - i]]

Range(s) == {s[i] : i \in DOMAIN s}

Without(s, p) == SelectSeq(s, LAMBDA x : x # p)

\* Position of p in a sequence without repetitions (0 when absent).
IndexOf(s, p) == IF p \in Range(s) THEN CHOOSE i \in DOMAIN s : s[i] = p ELSE 0

EngineParked ==
    /\ deps = [p \in Phases |-> {}]
    /\ phaseState = [p \in Phases |-> "Unstarted"]
    /\ finishOrder = <<>>
    /\ engineMode = "new"
    /\ runKind = "none"
    /\ crashed = FALSE
    /\ cursor = 1
    /\ task = [p \in Phases |-> "none"]
    /\ rollbackQueue = <<>>
    /\ operations = 0
    /\ snapshot = [p \in Phases |-> "Unstarted"]
    /\ visited = <<>>
    /\ executed = {}
    /\ preFailed = {}
    /\ rollbackLog = <<>>
    /\ rollbackErrors = {}

\* A plan is created: every phase Unstarted, any dependency graph.
EngineInit ==
    /\ deps \in Plans
    /\ phaseState = [p \in Phases |-> "Unstarted"]
    /\ finishOrder = <<>>
    /\ engineMode = "new"
    /\ runKind = "none"
    /\ crashed = FALSE
    /\ cursor = 1
    /\ task = [p \in Phases |-> "none"]
    /\ rollbackQueue = <<>>
    /\ operations = 0
    /\ snapshot = [p \in Phases |-> "Unstarted"]
    /\ visited = <<>>
    /\ executed = {}
    /\ preFailed = {}
    /\ rollbackLog = <<>>
    /\ rollbackErrors = {}

DepsCompleted(p) == \A d \in deps[p] : phaseState[d] = "Completed"

\* IsRunnable with a bug: the dependencies are not consulted.
IsRunnableIgnoringDeps(p) ==
    phaseState[p] \in {"Unstarted", "Failed", "InProgress"}

\* IsRunnable with a bug: a Completed phase counts as runnable again.
IsRunnableAlsoCompleted(p) ==
    /\ DepsCompleted(p)
    /\ phaseState[p] \in {"Unstarted", "Failed", "InProgress", "Completed"}

\* IsRunnable(id): all declared dependencies are Completed and the phase is
\* Unstarted or Failed-for-retry; a phase left InProgress by a crashed run
\* counts as Failed-for-retry.
IsRunnable(p) ==
    /\ DepsCompleted(p)
    /\ phaseState[p] \in {"Unstarted", "Failed", "InProgress"}

\* A dependency of p is still executing in this run.
WaitsForDeps(p) ==
    /\ \E d \in deps[p] : task[d] # "none"
    /\ \A d \in deps[p] : phaseState[d] = "Completed" \/ task[d] # "none"

\* SetPhaseState for a phase that finished: the state and the end timestamp.
Finish(p, st) ==
    /\ phaseState' = [phaseState EXCEPT ![p] = st]
    /\ finishOrder' = Append(Without(finishOrder, p), p)
    /\ task' = [task EXCEPT ![p] = "none"]

StartRun(kind) ==
    /\ engineMode' = "running"
    /\ runKind' = kind
    /\ crashed' = FALSE
    /\ cursor' = 1
    /\ snapshot' = phaseState
    /\ visited' = <<>>
    /\ executed' = {}
    /\ preFailed' = {}
    /\ rollbackLog' = <<>>
    /\ rollbackErrors' = {}
    /\ UNCHANGED <<planVars, task, rollbackQueue>>
    /\ UNCHANGED notEngineVars

\* Execute(planID) on a new plan.
Execute ==
    /\ engineMode = "new"
    /\ StartRun("execute")
    /\ UNCHANGED operations

\* Resume(planID): re-enters Execute from the first phase that is not Completed.
Resume ==
    /\ engineMode \in {"halted", "unwound"}
    /\ operations < MaxOperations
    /\ operations' = operations + 1
    /\ StartRun(IF crashed THEN "resumeAfterCrash" ELSE "resume")

\* The run reaches a Completed phase: it is skipped.
SkipCompleted ==
    /\ engineMode = "running"
    /\ cursor \in Phases
    /\ phaseState[cursor] = "Completed"
    /\ ~IsRunnable(cursor)
    /\ cursor' = cursor + 1
    /\ UNCHANGED <<planVars, engineMode, runKind, crashed, task, rollbackQueue, operations, historyVars>>
    /\ UNCHANGED notEngineVars

\* The run reaches a runnable phase: it is moved to InProgress, persisted,
\* and its executor starts with PreCheck.
StartPhase ==
    /\ engineMode = "running"
    /\ cursor \in Phases
    /\ IsRunnable(cursor)
    /\ phaseState' = [phaseState EXCEPT ![cursor] = "InProgress"]
    /\ task' = [task EXCEPT ![cursor] = "precheck"]
    /\ visited' = Append(visited, cursor)
    /\ cursor' = cursor + 1
    /\ UNCHANGED <<deps, finishOrder, engineMode, runKind, crashed, rollbackQueue, operations>>
    /\ UNCHANGED <<snapshot, executed, preFailed, rollbackLog, rollbackErrors>>
    /\ UNCHANGED notEngineVars

\* The run reaches a phase that cannot run: a dependency failed, was skipped
\* or was rolled back, or the phase itself was rolled back.  The branch halts.
SkipBlocked ==
    /\ engineMode = "running"
    /\ cursor \in Phases
    /\ phaseState[cursor] # "Completed"
    /\ ~IsRunnable(cursor)
    /\ ~WaitsForDeps(cursor)
    /\ cursor' = cursor + 1
    /\ UNCHANGED <<planVars, engineMode, runKind, crashed, task, rollbackQueue, operations, historyVars>>
    /\ UNCHANGED notEngineVars

\* PreCheck of an in-flight phase returns nil: Execute is invoked.
PreCheckOk(p) ==
    /\ engineMode = "running"
    /\ task[p] = "precheck"
    /\ task' = [task EXCEPT ![p] = "execute"]
    /\ executed' = executed \cup {p}
    /\ UNCHANGED <<planVars, engineMode, runKind, crashed, cursor, rollbackQueue, operations>>
    /\ UNCHANGED <<snapshot, visited, preFailed, rollbackLog, rollbackErrors>>
    /\ UNCHANGED notEngineVars

\* PreCheck returns an error: the phase is Failed, Execute does not run.
PreCheckFail(p) ==
    /\ engineMode = "running"
    /\ task[p] = "precheck"
    /\ Finish(p, "Failed")
    /\ preFailed' = preFailed \cup {p}
    /\ UNCHANGED <<deps, engineMode, runKind, crashed, cursor, rollbackQueue, operations>>
    /\ UNCHANGED <<snapshot, visited, executed, rollbackLog, rollbackErrors>>
    /\ UNCHANGED notEngineVars

\* Execute returns nil: PostCheck is invoked.
ExecuteOk(p) ==
    /\ engineMode = "running"
    /\ task[p] = "execute"
    /\ task' = [task EXCEPT ![p] = "postcheck"]
    /\ UNCHANGED <<planVars, engineMode, runKind, crashed, cursor, rollbackQueue, operations, historyVars>>
    /\ UNCHANGED notEngineVars

\* Execute or PostCheck returns an error: the phase is Failed.
BodyFail(p) ==
    /\ engineMode = "running"
    /\ task[p] \in {"execute", "postcheck"}
    /\ Finish(p, "Failed")
    /\ UNCHANGED <<deps, engineMode, runKind, crashed, cursor, rollbackQueue, operations, historyVars>>
    /\ UNCHANGED notEngineVars

\* PostCheck returns nil: the phase is Completed, persisted at once.
PostCheckOk(p) ==
    /\ engineMode = "running"
    /\ task[p] = "postcheck"
    /\ Finish(p, "Completed")
    /\ UNCHANGED <<deps, engineMode, runKind, crashed, cursor, rollbackQueue, operations, historyVars>>
    /\ UNCHANGED notEngineVars

\* Every phase has been visited and no executor is in flight: the run ends.
FinishRun ==
    /\ engineMode = "running"
    /\ cursor = NumPhases + 1
    /\ \A p \in Phases : task[p] = "none"
    /\ engineMode' = "halted"
    /\ cursor' = 1
    /\ UNCHANGED <<planVars, runKind, crashed, task, rollbackQueue, operations, historyVars>>
    /\ UNCHANGED notEngineVars

\* The process dies: in-flight executors are lost, the persisted plan stays.
Crash ==
    /\ engineMode = "running"
    /\ engineMode' = "halted"
    /\ crashed' = TRUE
    /\ task' = [p \in Phases |-> "none"]
    /\ cursor' = 1
    /\ UNCHANGED <<planVars, runKind, rollbackQueue, operations, historyVars>>
    /\ UNCHANGED notEngineVars

\* The rollback order with a bug: the phases are walked in completion order.
RollbackOrderForward ==
    SelectSeq(finishOrder, LAMBDA p : phaseState[p] \in {"Completed", "Failed"})

\* The Completed and Failed phases, last finished first.
RollbackOrder ==
    Reverse(SelectSeq(finishOrder, LAMBDA p : phaseState[p] \in {"Completed", "Failed"}))

\* Rollback(planID): starts the walk over the Completed and Failed phases.
Rollback ==
    /\ engineMode \in {"halted", "unwound"}
    /\ operations < MaxOperations
    /\ operations' = operations + 1
    /\ engineMode' = "rollback"
    /\ runKind' = "rollback"
    /\ crashed' = FALSE
    /\ rollbackQueue' = RollbackOrder
    /\ snapshot' = phaseState
    /\ visited' = <<>>
    /\ executed' = {}
    /\ preFailed' = {}
    /\ rollbackLog' = <<>>
    /\ rollbackErrors' = {}
    /\ UNCHANGED <<planVars, cursor, task>>
    /\ UNCHANGED notEngineVars

\* The walk invokes Rollback of the next phase, which succeeds.
RollbackPhaseOk ==
    /\ engineMode = "rollback"
    /\ rollbackQueue # <<>>
    /\ rollbackLog' = Append(rollbackLog, Head(rollbackQueue))
    /\ phaseState' = [phaseState EXCEPT ![Head(rollbackQueue)] = "RolledBack"]
    /\ rollbackQueue' = Tail(rollbackQueue)
    /\ UNCHANGED <<deps, finishOrder, engineMode, runKind, crashed, cursor, task, operations>>
    /\ UNCHANGED <<snapshot, visited, executed, preFailed, rollbackErrors>>
    /\ UNCHANGED notEngineVars

\* The walk invokes Rollback of the next phase, which returns an error: the
\* error is recorded and the walk goes on.
RollbackPhaseFail ==
    /\ engineMode = "rollback"
    /\ rollbackQueue # <<>>
    /\ rollbackLog' = Append(rollbackLog, Head(rollbackQueue))
    /\ rollbackErrors' = rollbackErrors \cup {Head(rollbackQueue)}
    /\ rollbackQueue' = Tail(rollbackQueue)
    /\ UNCHANGED <<planVars, engineMode, runKind, crashed, cursor, task, operations>>
    /\ UNCHANGED <<snapshot, visited, executed, preFailed>>
    /\ UNCHANGED notEngineVars

\* The walk has visited every phase.
FinishRollback ==
    /\ engineMode = "rollback"
    /\ rollbackQueue = <<>>
    /\ engineMode' = "unwound"
    /\ UNCHANGED <<planVars, runKind, crashed, cursor, task, rollbackQueue, operations, historyVars>>
    /\ UNCHANGED notEngineVars

EngineNext ==
    \/ Execute
    \/ Resume
    \/ SkipCompleted
    \/ StartPhase
    \/ SkipBlocked
    \/ \E p \in Phases : PreCheckOk(p)
    \/ \E p \in Phases : PreCheckFail(p)
    \/ \E p \in Phases : ExecuteOk(p)
    \/ \E p \in Phases : BodyFail(p)
    \/ \E p \in Phases : PostCheckOk(p)
    \/ FinishRun
    \/ Crash
    \/ Rollback
    \/ RollbackPhaseOk
    \/ RollbackPhaseFail
    \/ FinishRollback

(***************************************************************************)
(* Install phase resolver (FSMSpec).  A phase identifier is a sequence of  *)
(* path segments; the identifiers of lib/install/phases are defined        *)
(* outside the sources and stand here for one segment each, none a prefix  *)
(* of another.                                                             *)
(***************************************************************************)

\* Bound: number of path segments of a phase identifier.
MaxIDLen == 2

InitPhase == <<"init">>
ChecksPhase == <<"checks">>
ConfigurePhase == <<"configure">>
BootstrapPhase == <<"bootstrap">>
PullPhase == <<"pull">>
MastersPhase == <<"masters">>
NodesPhase == <<"nodes">>
WaitPhase == <<"wait">>
HealthPhase == <<"health">>
RBACPhase == <<"rbac">>
CorednsPhase == <<"coredns">>
SystemResourcesPhase == <<"system-resources">>
UserResourcesPhase == <<"user-resources">>
ExportPhase == <<"export">>
RuntimePhase == <<"runtime">>
AppPhase == <<"app">>
ConnectInstallerPhase == <<"connect-installer">>
EnableElectionPhase == <<"election">>
InstallOverlayPhase == <<"overlay">>
GravityResourcesPhase == <<"gravity-resources">>

\* The resolver's table in declared order: the matcher of every case of the
\* switch and the factory the case calls.
Table ==
    << [match |-> "prefix", phase |-> InitPhase,             factory |-> "NewInit"],
       [match |-> "exact",  phase |-> ChecksPhase,           factory |-> "NewChecks"],
       [match |-> "exact",  phase |-> ConfigurePhase,        factory |-> "NewConfigure"],
       [match |-> "prefix", phase |-> BootstrapPhase,        factory |-> "NewBootstrap"],
       [match |-> "prefix", phase |-> PullPhase,             factory |-> "NewPull"],
       [match |-> "prefix", phase |-> MastersPhase,          factory |-> "NewSystem"],
       [match |-> "prefix", phase |-> NodesPhase,            factory |-> "NewSystem"],
       [match |-> "exact",  phase |-> WaitPhase,             factory |-> "NewWait"],
       [match |-> "exact",  phase |-> HealthPhase,           factory |-> "NewHealth"],
       [match |-> "exact",  phase |-> RBACPhase,             factory |-> "NewRBAC"],
       [match |-> "exact",  phase |-> CorednsPhase,          factory |-> "NewCorednsPhase"],
       [match |-> "exact",  phase |-> SystemResourcesPhase,  factory |-> "NewSystemResources"],
       [match |-> "exact",  phase |-> UserResourcesPhase,    factory |-> "NewUserResources"],
       [match |-> "prefix", phase |-> ExportPhase,           factory |-> "NewExport"],
       [match |-> "prefix", phase |-> RuntimePhase,          factory |-> "NewApp"],
       [match |-> "prefix", phase |-> AppPhase,              factory |-> "NewApp"],
       [match |-> "exact",  phase |-> ConnectInstallerPhase, factory |-> "NewConnectInstaller"],
       [match |-> "prefix", phase |-> EnableElectionPhase,   factory |-> "NewEnableElectionPhase"],
       [match |-> "prefix", phase |-> InstallOverlayPhase,   factory |-> "NewHook"],
       [match |-> "prefix", phase |-> GravityResourcesPhase, factory |-> "NewGravityResourcesPhase"] >>

Segments == {Table[i].phase[1] : i \in DOMAIN Table} \cup {"bogus", "1"}

SeqsUpTo(S, n) == UNION {[1..k -> S] : k \in 0..n}

PhaseIDs == SeqsUpTo(Segments, MaxIDLen)

\* What can fail while a phase is resolved: the cluster Kubernetes client,
\* the local cluster client, the gravity resource factory, the phase factory.
ResolverEnvs == [kubeErr : BOOLEAN, localClientErr : BOOLEAN, gravityErr : BOOLEAN, factoryErr : BOOLEAN]

\* strings.HasPrefix with a bug: the prefix has to be the whole identifier.
HasPrefixWhole(s, prefix) == s = prefix

\* strings.HasPrefix
HasPrefix(s, prefix) ==
    /\ Len(s) >= Len(prefix)
    /\ SubSeq(s, 1, Len(prefix)) = prefix

\* The resolver returns an error without having called a phase factory.
Failed(kind) == [invoked |-> "none", executor |-> "none", err |-> kind, phase |-> <<>>]

\* The default case with a bug: an unknown phase gets the application executor.
UnknownPhaseAsApp(id) == [invoked |-> "NewApp", executor |-> "NewApp", err |-> "nil", phase |-> <<>>]

\* The default case: trace.BadParameter("unknown phase %q", id).
UnknownPhase(id) == [invoked |-> "none", executor |-> "none", err |-> "BadParameter: unknown phase", phase |-> id]

\* return phases.NewX(...): the resolver returns what the factory returns.
Invoke(factory, env) ==
    IF env.factoryErr
    THEN [invoked |-> factory, executor |-> "none", err |-> "factory error", phase |-> <<>>]
    ELSE [invoked |-> factory, executor |-> factory, err |-> "nil", phase |-> <<>>]

\* The cases that first build the cluster Kubernetes client (getKubeClient).
InvokeWithKubeClient(factory, env) ==
    IF env.kubeErr THEN Failed("kube client error") ELSE Invoke(factory, env)

\* The gravity resources case: local cluster client, resource factory, phase.
InvokeGravityResources(env) ==
    IF env.localClientErr THEN Failed("local cluster client error")
    ELSE IF env.gravityErr THEN Failed("gravity resource factory error")
    ELSE Invoke("NewGravityResourcesPhase", env)

\* The function FSMSpec returns: the cases of its switch, top to bottom.
FSMSpec(id, env) ==
    IF HasPrefix(id, InitPhase) THEN Invoke("NewInit", env)
    ELSE IF id = ChecksPhase THEN Invoke("NewChecks", env)
    ELSE IF id = ConfigurePhase THEN Invoke("NewConfigure", env)
    ELSE IF HasPrefix(id, BootstrapPhase) THEN Invoke("NewBootstrap", env)
    ELSE IF HasPrefix(id, PullPhase) THEN Invoke("NewPull", env)
    ELSE IF HasPrefix(id, MastersPhase) \/ HasPrefix(id, NodesPhase) THEN Invoke("NewSystem", env)
    ELSE IF id = WaitPhase THEN InvokeWithKubeClient("NewWait", env)
    ELSE IF id = HealthPhase THEN Invoke("NewHealth", env)
    ELSE IF id = RBACPhase THEN InvokeWithKubeClient("NewRBAC", env)
    ELSE IF id = CorednsPhase THEN InvokeWithKubeClient("NewCorednsPhase", env)
    ELSE IF id = SystemResourcesPhase THEN InvokeWithKubeClient("NewSystemResources", env)
    ELSE IF id = UserResourcesPhase THEN Invoke("NewUserResources", env)
    ELSE IF HasPrefix(id, ExportPhase) THEN Invoke("NewExport", env)
    ELSE IF HasPrefix(id, RuntimePhase) \/ HasPrefix(id, AppPhase) THEN Invoke("NewApp", env)
    ELSE IF id = ConnectInstallerPhase THEN Invoke("NewConnectInstaller", env)
    ELSE IF HasPrefix(id, EnableElectionPhase) THEN Invoke("NewEnableElectionPhase", env)
    ELSE IF HasPrefix(id, InstallOverlayPhase) THEN Invoke("NewHook", env)
    ELSE IF HasPrefix(id, GravityResourcesPhase) THEN InvokeGravityResources(env)
    ELSE UnknownPhase(id)

ResolverParked ==
    /\ reqID = <<>>
    /\ reqEnv = [kubeErr |-> FALSE, localClientErr |-> FALSE, gravityErr |-> FALSE, factoryErr |-> FALSE]
    /\ resolution = Failed("pending")
    /\ resolverPc = "request"

\* The engine is about to resolve some phase of some plan.
ResolverInit ==
    /\ reqID \in PhaseIDs
    /\ reqEnv \in ResolverEnvs
    /\ resolution = Failed("pending")
    /\ resolverPc = "request"

\* The engine calls the resolver for the phase.
Resolve ==
    /\ resolverPc = "request"
    /\ resolution' = FSMSpec(reqID, reqEnv)
    /\ resolverPc' = "done"
    /\ UNCHANGED <<reqID, reqEnv>>
    /\ UNCHANGED notResolverVars

ResolverNext == Resolve

(***************************************************************************)
(* Properties of the resolver                                              *)
(***************************************************************************)

\* The matcher of a table entry accepts the identifier.
Accepts(entry, id) ==
    IF entry.match = "prefix"
    THEN Len(id) >= Len(entry.phase) /\ \A i \in 1..Len(entry.phase) : id[i] = entry.phase[i]
    ELSE id = entry.phase

Matching(id) == {i \in DOMAIN Table : Accepts(Table[i], id)}

FirstMatch(id) == CHOOSE i \in Matching(id) : \A j \in Matching(id) : i <= j

\* C6: for an identifier that no table entry accepts the resolver returns no
\* executor, calls no factory, and returns a BadParameter error that names
\* the unknown phase.
C6_UnknownPhaseIsBadParameter ==
    (resolverPc = "done" /\ Matching(reqID) = {}) =>
        /\ resolution.executor = "none"
        /\ resolution.invoked = "none"
        /\ resolution.err = "BadParameter: unknown phase"
        /\ resolution.phase = reqID

\* The identifier bogus/1 has been resolved.
C6_Witness ==
    /\ resolverPc = "done"
    /\ reqID = <<"bogus", "1">>
    /\ Matching(reqID) = {}
    /\ resolution.err = "BadParameter: unknown phase"

\* C7 as claimed: for every identifier some entry accepts, the resolver
\* invokes the factory of the first such entry.
C7_InvokesFirstMatch ==
    (resolverPc = "done" /\ Matching(reqID) # {}) =>
        resolution.invoked = Table[FirstMatch(reqID)].factory

\* The entries whose case builds a client before it calls the factory.
NeedsClient(i) ==
    Table[i].factory \in {"NewWait", "NewRBAC", "NewCorednsPhase", "NewSystemResources", "NewGravityResourcesPhase"}

\* C7 as amended: the resolver never invokes a factory other than that of the
\* first entry, in declared order, that accepts the identifier, and never
\* fails with BadParameter for an accepted identifier; it invokes exactly that
\* factory whenever the entry needs no client, so every masters and every
\* nodes identifier resolves to the system executor factory; an entry that
\* needs a cluster client invokes its factory unless building the client
\* fails, and then the resolver returns that error and invokes no factory.
C7_FirstMatchOrClientError ==
    (resolverPc = "done" /\ Matching(reqID) # {}) =>
        /\ resolution.invoked \in {"none", Table[FirstMatch(reqID)].factory}
        /\ resolution.err # "BadParameter: unknown phase"
        /\ resolution.executor \in {"none", resolution.invoked}
        /\ ~NeedsClient(FirstMatch(reqID)) => resolution.invoked = Table[FirstMatch(reqID)].factory
        /\ resolution.invoked = "none" =>
              /\ NeedsClient(FirstMatch(reqID))
              /\ reqEnv.kubeErr \/ reqEnv.localClientErr \/ reqEnv.gravityErr
              /\ resolution.err \in {"kube client error", "local cluster client error", "gravity resource factory error"}
        /\ (HasPrefix(reqID, MastersPhase) \/ HasPrefix(reqID, NodesPhase)) => resolution.invoked = "NewSystem"

\* nodes/1 has been resolved to the executor of the system factory.
C7_Witness ==
    /\ resolverPc = "done"
    /\ reqID = <<"nodes", "1">>
    /\ FirstMatch(reqID) = 7
    /\ resolution.executor = "NewSystem"

(***************************************************************************)
(* Error classifier (lib/utils/error.go).  An error is the original error  *)
(* (its dynamic type and what its message contains) and the way it has     *)
(* been wrapped by the trace package.  A message is represented by the set *)
(* of the fixed substrings the classifier looks for that occur in it.      *)
(***************************************************************************)

\* Bound: number of the classifier's substrings one message contains.
MaxPhrases == 2

\* http.StatusInternalServerError
StatusInternalServerError == 500

\* http.StatusUnauthorized
StatusUnauthorized == 401

Phrases ==
    { "peer not authorized",
      "license allows maximum of",
      "One of existing peers already has hostname",
      "One of existing servers already has hostname",
      "connection reset by peer",
      "connection refused",
      "etcd cluster is unavailable or misconfigured",
      "etcd member",
      "has no leader",
      "use of closed network connection" }

Texts == {t \in SUBSET Phrases : Cardinality(t) <= MaxPhrases}

\* strings.Contains(message, phrase)
Contains(text, phrase) == phrase \in text

\* The original errors: what trace.Unwrap returns.
\*   plain               an error with a message only
\*   connectionProblem   *trace.ConnectionProblemError around inner
\*   etcdClusterError    *etcd.ClusterError
\*   kubeStatus          *kubeerrors.StatusError with an HTTP code
\*   contextCanceled     context.Canceled
OrigErrors ==
    [type : {"plain", "etcdClusterError"}, text : Texts, inner : {"none"}, code : {0}]
    \cup [type : {"connectionProblem"}, text : Texts, inner : {"none", "contextCanceled", "other"}, code : {0}]
    \cup [type : {"kubeStatus"}, text : Texts, inner : {"none"}, code : {StatusInternalServerError, StatusUnauthorized}]
    \cup [type : {"contextCanceled"}, text : {{}}, inner : {"none"}, code : {0}]

\* The messages a trace.Wrap call attaches.
WrapTexts == {t \in Texts : Cardinality(t) <= 1}

\* wrap: "none" (the original error itself), "trace" (trace.Wrap(err), any
\* depth), "message" (trace.Wrap(err, message): the wrapper has its own text).
NonNilErrors ==
    [isNil : {FALSE}, orig : OrigErrors, wrap : {"none", "trace"}, wrapText : {{}}]
    \cup [isNil : {FALSE}, orig : OrigErrors, wrap : {"message"}, wrapText : WrapTexts]

NilError ==
    [isNil |-> TRUE,
     orig |-> [type |-> "plain", text |-> {}, inner |-> "none", code |-> 0],
     wrap |-> "none", wrapText |-> {}]

Errors == NonNilErrors \cup {NilError}

\* trace.Unwrap(err): the original error under any number of trace wrappers.
Unwrap(err) == err.orig

\* err.Error(): a trace wrapper with a message of its own reports that
\* message, any other error the message of the original error.
ErrorText(err) == IF err.wrap = "message" THEN err.wrapText ELSE err.orig.text

\* trace.UserMessage(err)
UserMessage(err) == IF err.isNil THEN {} ELSE ErrorText(err)

\* trace.IsConnectionProblem(err)
IsConnectionProblem(err) == Unwrap(err).type = "connectionProblem"

IsConnectionResetError(err) == Contains(Unwrap(err).text, "connection reset by peer")

IsConnectionRefusedError(err) == Contains(Unwrap(err).text, "connection refused")

isEtcdClusterMisconfigured(message) ==
    Contains(message, "etcd cluster is unavailable or misconfigured")

isEtcdClusterHasNoLeader(message) ==
    Contains(message, "etcd member") /\ Contains(message, "has no leader")

\* isEtcdClusterErrorMessage with a bug: the message about the leader is not
\* looked for.
isEtcdClusterErrorMessageMisconfiguredOnly(message) ==
    isEtcdClusterMisconfigured(message)

isEtcdClusterErrorMessage(message) ==
    isEtcdClusterMisconfigured(message) \/ isEtcdClusterHasNoLeader(message)

IsClusterUnavailableError(err) == isEtcdClusterErrorMessage(UserMessage(err))

isEtcdClusterError(err) == Unwrap(err).type = "etcdClusterError"

isKubernetesEtcdClusterError(err) ==
    /\ Unwrap(err).type = "kubeStatus"
    /\ Unwrap(err).code = StatusInternalServerError
    /\ isEtcdClusterErrorMessage(Unwrap(err).text)

IsKubeAuthError(err) ==
    /\ Unwrap(err).type = "kubeStatus"
    /\ Unwrap(err).code = StatusUnauthorized

IsClosedConnectionError(err) == Contains(Unwrap(err).text, "use of closed network connection")

\* IsContextCancelledError with a bug: the cause of the connection problem is
\* not looked at.
IsContextCancelledErrorAnyCause(err) ==
    \/ Unwrap(err).type = "contextCanceled"
    \/ Unwrap(err).type = "connectionProblem"

IsContextCancelledError(err) ==
    \/ Unwrap(err).type = "contextCanceled"
    \/ Unwrap(err).type = "connectionProblem" /\ Unwrap(err).inner = "contextCanceled"

\* IsTransientClusterError with a bug: the etcd cases are missing.
IsTransientClusterErrorNoEtcd(err) ==
    IF err.isNil THEN FALSE
    ELSE IF IsConnectionProblem(err) THEN TRUE
    ELSE IF IsConnectionResetError(err) THEN TRUE
    ELSE IF IsConnectionRefusedError(err) THEN TRUE
    ELSE FALSE

\* IsTransientClusterError with a bug: the default case returns true.
IsTransientClusterErrorDefaultTrue(err) ==
    IF err.isNil THEN FALSE ELSE TRUE

IsTransientClusterError(err) ==
    IF err.isNil THEN FALSE
    ELSE IF IsConnectionProblem(err) THEN TRUE
    ELSE IF IsConnectionResetError(err) THEN TRUE
    ELSE IF IsConnectionRefusedError(err) THEN TRUE
    ELSE IF IsClusterUnavailableError(err) \/ isEtcdClusterError(err) THEN TRUE
    ELSE IF isKubernetesEtcdClusterError(err) THEN TRUE
    ELSE FALSE

isPeerDeniedError(message) == Contains(message, "peer not authorized")

isLicenseError(message) == Contains(message, "license allows maximum of")

\* isHostAlreadyRegisteredError with a bug: only the first message is known.
isHostAlreadyRegisteredErrorPeersOnly(message) ==
    Contains(message, "One of existing peers already has hostname")

isHostAlreadyRegisteredError(message) ==
    \/ Contains(message, "One of existing peers already has hostname")
    \/ Contains(message, "One of existing servers already has hostname")

\* ShouldReconnectPeer: &backoff.PermanentError{Err: err} for the errors that
\* cannot be recovered from, err itself otherwise.  err.Error() on a nil
\* error is a run-time panic.
ShouldReconnectPeer(err) ==
    IF err.isNil THEN [outcome |-> "panic", err |-> err]
    ELSE IF \/ isPeerDeniedError(ErrorText(err))
            \/ isLicenseError(ErrorText(err))
            \/ isHostAlreadyRegisteredError(ErrorText(err))
         THEN [outcome |-> "permanent", err |-> err]
         ELSE [outcome |-> "unchanged", err |-> err]

ClassifierParked ==
    /\ errIn = NilError
    /\ transientOut = [called |-> FALSE, value |-> FALSE]
    /\ reconnectOut = [outcome |-> "not called", err |-> NilError]
    /\ cancelledOut = [called |-> FALSE, value |-> FALSE]
    /\ unavailableOut = [called |-> FALSE, value |-> FALSE]

\* Some error reaches the classifier.
ClassifierInit ==
    /\ errIn \in Errors
    /\ transientOut = [called |-> FALSE, value |-> FALSE]
    /\ reconnectOut = [outcome |-> "not called", err |-> NilError]
    /\ cancelledOut = [called |-> FALSE, value |-> FALSE]
    /\ unavailableOut = [called |-> FALSE, value |-> FALSE]

CallIsTransientClusterError ==
    /\ ~transientOut.called
    /\ transientOut' = [called |-> TRUE, value |-> IsTransientClusterError(errIn)]
    /\ UNCHANGED <<errIn, reconnectOut, cancelledOut, unavailableOut>>
    /\ UNCHANGED notClassifierVars

CallShouldReconnectPeer ==
    /\ reconnectOut.outcome = "not called"
    /\ reconnectOut' = ShouldReconnectPeer(errIn)
    /\ UNCHANGED <<errIn, transientOut, cancelledOut, unavailableOut>>
    /\ UNCHANGED notClassifierVars

CallIsContextCancelledError ==
    /\ ~cancelledOut.called
    /\ cancelledOut' = [called |-> TRUE, value |-> IsContextCancelledError(errIn)]
    /\ UNCHANGED <<errIn, transientOut, reconnectOut, unavailableOut>>
    /\ UNCHANGED notClassifierVars

CallIsClusterUnavailableError ==
    /\ ~unavailableOut.called
    /\ unavailableOut' = [called |-> TRUE, value |-> IsClusterUnavailableError(errIn)]
    /\ UNCHANGED <<errIn, transientOut, reconnectOut, cancelledOut>>
    /\ UNCHANGED notClassifierVars

ClassifierNext ==
    \/ CallIsTransientClusterError
    \/ CallShouldReconnectPeer
    \/ CallIsContextCancelledError
    \/ CallIsClusterUnavailableError

(***************************************************************************)
(* Properties of the classifier                                            *)
(***************************************************************************)

PermanentPhrases ==
    { "peer not authorized",
      "license allows maximum of",
      "One of existing peers already has hostname",
      "One of existing servers already has hostname" }

\* C8: for a non-nil error ShouldReconnectPeer returns a PermanentError around
\* it exactly when its message contains one of the four phrases, and returns
\* the same error unchanged otherwise.
C8_PermanentIffDenied ==
    (reconnectOut.outcome # "not called" /\ ~errIn.isNil) =>
        /\ reconnectOut.err = errIn
        /\ reconnectOut.outcome =
              (IF ErrorText(errIn) \cap PermanentPhrases # {} THEN "permanent" ELSE "unchanged")

\* A wrapped error whose message says that a server already has the hostname
\* has been made permanent.
C8_Witness ==
    /\ reconnectOut.outcome = "permanent"
    /\ errIn.wrap = "message"
    /\ ErrorText(errIn) = {"One of existing servers already has hostname"}

\* An error none of the classifier's predicates recognises.
Unknown(err) ==
    /\ ~err.isNil
    /\ Unwrap(err).type = "plain"
    /\ ErrorText(err) = {}
    /\ Unwrap(err).text = {}

\* C9 as claimed: an unknown error is non-retryable at every gate:
\* IsTransientClusterError is false and ShouldReconnectPeer makes it permanent.
C9_UnknownIsNonRetryable ==
    (Unknown(errIn) /\ transientOut.called /\ reconnectOut.outcome # "not called") =>
        /\ transientOut.value = FALSE
        /\ reconnectOut.outcome = "permanent"

\* C9 as amended: for an unknown error IsTransientClusterError returns false,
\* and ShouldReconnectPeer returns the error unchanged, not as a permanent
\* error, so the reconnect loop keeps retrying on it.
C9_UnknownNotTransientButReconnects ==
    (Unknown(errIn) /\ transientOut.called /\ reconnectOut.outcome # "not called") =>
        /\ transientOut.value = FALSE
        /\ ~IsContextCancelledError(errIn)
        /\ reconnectOut = [outcome |-> "unchanged", err |-> errIn]

\* Both gates have been asked about an unknown error under a trace wrapper.
C9_Witness ==
    /\ Unknown(errIn)
    /\ errIn.wrap = "trace"
    /\ transientOut.called
    /\ reconnectOut.outcome = "unchanged"

\* The conditions under which the claim promises a transient error.
ClaimedTransient(err) ==
    \/ Unwrap(err).type = "connectionProblem"
    \/ "connection reset by peer" \in Unwrap(err).text
    \/ "connection refused" \in Unwrap(err).text
    \/ Unwrap(err).type = "etcdClusterError"
    \/ "etcd cluster is unavailable or misconfigured" \in UserMessage(err)

\* C10: IsTransientClusterError returns false for nil, and true for every
\* non-nil error that is a connection problem, whose unwrapped message
\* contains "connection reset by peer" or "connection refused", whose cause
\* is an etcd cluster error, or whose user message contains "etcd cluster is
\* unavailable or misconfigured", under any wrapping.
C10_TransientClusterErrors ==
    transientOut.called =>
        /\ errIn.isNil => transientOut.value = FALSE
        /\ (~errIn.isNil /\ ClaimedTransient(errIn)) => transientOut.value = TRUE

\* A trace-wrapped etcd cluster error whose message is the misconfiguration
\* message has been classified as transient.
C10_Witness ==
    /\ transientOut.called
    /\ transientOut.value = TRUE
    /\ errIn.wrap = "trace"
    /\ Unwrap(errIn).type = "plain"
    /\ UserMessage(errIn) = {"etcd cluster is unavailable or misconfigured"}

\* C11: IsContextCancelledError returns true exactly when the unwrapped error
\* is context.Canceled itself or a connection problem whose inner error is
\* context.Canceled, under any trace wrapping; it returns false for every
\* other error, a connection problem with another cause included.
C11_CancelledIffContextCanceled ==
    cancelledOut.called =>
        /\ cancelledOut.value =
              (\/ errIn.orig.type = "contextCanceled"
               \/ errIn.orig.type = "connectionProblem" /\ errIn.orig.inner = "contextCanceled")
        /\ (errIn.orig.type = "connectionProblem" /\ errIn.orig.inner # "contextCanceled")
              => cancelledOut.value = FALSE
        /\ errIn.orig.type \in {"plain", "etcdClusterError", "kubeStatus"}
              => cancelledOut.value = FALSE

\* A trace-wrapped connection problem caused by something else than the
\* cancellation has been classified as not cancelled.
C11_Witness ==
    /\ cancelledOut.called
    /\ cancelledOut.value = FALSE
    /\ errIn.wrap = "trace"
    /\ errIn.orig.type = "connectionProblem"
    /\ errIn.orig.inner = "other"

\* C21 as claimed: for every error whose message contains "has no leader",
\* whatever else the message says, IsClusterUnavailableError and
\* IsTransientClusterError return true.
C21_NoLeaderIsTransient ==
    (/\ ~errIn.isNil
     /\ "has no leader" \in UserMessage(errIn)
     /\ unavailableOut.called
     /\ transientOut.called) =>
        /\ unavailableOut.value = TRUE
        /\ transientOut.value = TRUE

\* C21 as amended: for every error whose message contains both "etcd member"
\* and "has no leader" IsClusterUnavailableError and IsTransientClusterError
\* return true; for a message with "has no leader" and without "etcd member"
\* (and without the misconfiguration message) IsClusterUnavailableError
\* returns false.
C21_EtcdMemberNoLeaderIsTransient ==
    (~errIn.isNil /\ "has no leader" \in UserMessage(errIn)) =>
        /\ unavailableOut.called =>
              unavailableOut.value =
                  (\/ "etcd member" \in UserMessage(errIn)
                   \/ "etcd cluster is unavailable or misconfigured" \in UserMessage(errIn))
        /\ (transientOut.called /\ "etcd member" \in UserMessage(errIn)) =>
              transientOut.value = TRUE

\* Both functions have been asked about a plain error under a trace wrapper
\* whose message is "etcd member ... has no leader": both returned true.
C21_Witness ==
    /\ errIn.wrap = "trace"
    /\ errIn.orig.type = "plain"
    /\ UserMessage(errIn) = {"etcd member", "has no leader"}
    /\ unavailableOut = [called |-> TRUE, value |-> TRUE]
    /\ transientOut = [called |-> TRUE, value |-> TRUE]

\* C22 as claimed: there is no error for which IsContextCancelledError and
\* IsTransientClusterError both return true.
C22_CancelledIsNotTransient ==
    (cancelledOut.called /\ transientOut.called) =>
        ~(cancelledOut.value = TRUE /\ transientOut.value = TRUE)

\* A connection problem around context.Canceled, under a trace wrapper, has
\* been classified as cancelled and as transient.
C22_Witness ==
    /\ errIn.wrap = "trace"
    /\ errIn.orig.type = "connectionProblem"
    /\ errIn.orig.inner = "contextCanceled"
    /\ cancelledOut = [called |-> TRUE, value |-> TRUE]
    /\ transientOut = [called |-> TRUE, value |-> TRUE]

(***************************************************************************)
(* Command line rewriting (updateCommandWithFlags).  The parser (kingpin)   *)
(* is outside the sources: a parsed command line is given by the selected   *)
(* command and the list of parsed elements.  A Go slice is a window on a    *)
(* backing array: flagsToAdd is the caller's array and the length of the    *)
(* window the function currently holds on it.                               *)
(***************************************************************************)

\* Bound: number of parsed elements of the original command line.
MaxElements == 2

\* Bound: number of flags the caller asks to add.
MaxFlagsToAdd == 3

\* The flags registered for the command; the boolean ones take no value.
FlagNames == {"token", "advertise-addr", "insecure"}

BoolFlags == {"insecure"}

\* kingpin.ParseElement: the clause (a command, a positional argument or a
\* flag with its model name) and the parsed value.
ParseElements ==
    [clause : {"cmd"}, name : {"install"}, value : {""}]
    \cup [clause : {"arg"}, name : {"path"}, value : {"/tmp/app.tar"}]
    \cup [clause : {"flag"}, name : FlagNames \ BoolFlags, value : {"xyz"}]
    \cup [clause : {"flag"}, name : BoolFlags, value : {"true"}]

\* type flag struct { name, value string }
RequestedFlags ==
    { [name |-> "token", value |-> "abc"],
      [name |-> "advertise-addr", value |-> "10.0.0.1"],
      [name |-> "insecure", value |-> "true"] }

SeqsOf(S, n) == UNION {[1..k -> S] : k \in 0..n}

CommandInputs ==
    [parseErr : BOOLEAN,
     selected : {"install"},
     elements : SeqsOf(ParseElements, MaxElements),
     flagsToAdd : SeqsOf(RequestedFlags, MaxFlagsToAdd)]

\* The elements of the returned line.
\* ctx.SelectedCommand.FullCommand()
FullCommand(name) == [tok |-> "command", text |-> name]

\* fmt.Sprint("--", name)
DashDash(name) == [tok |-> "flag", text |-> name]

\* strconv.Quote(value)
Quote(value) == [tok |-> "quoted", text |-> value]

\* append(flagsToAdd[:i], flagsToAdd[i+1:]...) on a window of length n on the
\* array arr, for the zero-based index i: the elements behind i move one
\* place down in the array, the last place keeps its element.
RemoveAt(arr, n, i) ==
    [k \in DOMAIN arr |-> IF k >= i + 1 /\ k <= n - 1 THEN arr[k + 1] ELSE arr[k]]

\* The loop `for i, flag := range flagsToAdd` at zero-based index i: the range
\* runs over the n0 places the window had when the loop started and reads the
\* array as it is now.  st = [arr, n, panic].
RECURSIVE RemoveRequested(_, _, _, _)
RemoveRequested(st, name, i, n0) ==
    IF i >= n0 \/ st.panic THEN st
    ELSE IF st.arr[i + 1].name # name THEN RemoveRequested(st, name, i + 1, n0)
    ELSE IF i + 1 > st.n
         THEN [st EXCEPT !.panic = TRUE]
         ELSE RemoveRequested([arr |-> RemoveAt(st.arr, st.n, i), n |-> st.n - 1, panic |-> FALSE],
                              name, i + 1, n0)

\* What one parsed element adds to args.
EmitElement(el) ==
    IF el.clause = "arg" THEN <<Quote(el.value)>>
    ELSE IF el.clause = "flag"
         THEN IF el.name \in BoolFlags
              THEN <<DashDash(el.name)>>
              ELSE <<DashDash(el.name), Quote(el.value)>>
         ELSE <<>>

\* The loop over ctx.Elements from element k on.  st = [arr, n, panic, args].
RECURSIVE EmitElements(_, _, _)
EmitElements(st, elements, k) ==
    IF k > Len(elements) \/ st.panic THEN st
    ELSE LET el == elements[k]
             args == st.args \o EmitElement(el)
             rem == IF el.clause = "flag"
                    THEN RemoveRequested([arr |-> st.arr, n |-> st.n, panic |-> FALSE],
                                         el.name, 0, st.n)
                    ELSE [arr |-> st.arr, n |-> st.n, panic |-> FALSE]
         IN  EmitElements([arr |-> rem.arr, n |-> rem.n, panic |-> rem.panic, args |-> args],
                          elements, k + 1)

\* The loop that appends what is left of flagsToAdd.
RECURSIVE EmitRequested(_, _, _)
EmitRequested(arr, n, k) ==
    IF k > n THEN <<>>
    ELSE <<DashDash(arr[k].name), Quote(arr[k].value)>> \o EmitRequested(arr, n, k + 1)

\* updateCommandWithFlags(command, parser, flagsToAdd): the outcome, the
\* returned line and the caller's flagsToAdd after the call.
updateCommandWithFlags(in) ==
    IF in.parseErr
    THEN [outcome |-> "error", args |-> <<>>, callerFlags |-> in.flagsToAdd]
    ELSE LET st == EmitElements([arr |-> in.flagsToAdd, n |-> Len(in.flagsToAdd),
                                 panic |-> FALSE, args |-> <<>>], in.elements, 1)
         IN  IF st.panic
             THEN [outcome |-> "panic", args |-> <<>>, callerFlags |-> st.arr]
             ELSE [outcome |-> "returned",
                   args |-> <<FullCommand(in.selected)>> \o st.args \o EmitRequested(st.arr, st.n, 1),
                   callerFlags |-> st.arr]

NotCalled == [outcome |-> "not called", args |-> <<>>, callerFlags |-> <<>>]

CommandParked ==
    /\ cmdIn = [parseErr |-> FALSE, selected |-> "install", elements |-> <<>>, flagsToAdd |-> <<>>]
    /\ cmdOut = NotCalled

CommandInit ==
    /\ cmdIn \in CommandInputs
    /\ cmdOut = NotCalled

UpdateCommandWithFlags ==
    /\ cmdOut.outcome = "not called"
    /\ cmdOut' = updateCommandWithFlags(cmdIn)
    /\ UNCHANGED cmdIn
    /\ UNCHANGED notCommandVars

CommandNext == UpdateCommandWithFlags

(***************************************************************************)
(* Properties of the command line rewriting                                *)
(***************************************************************************)

\* The names of the flags of the original line.
OriginalFlagNames == {cmdIn.elements[k].name : k \in {j \in DOMAIN cmdIn.elements : cmdIn.elements[j].clause = "flag"}}

\* What the original elements contribute to the line, element by element.
RECURSIVE OriginalPart(_)
OriginalPart(k) ==
    IF k > Len(cmdIn.elements) THEN <<>> ELSE EmitElement(cmdIn.elements[k]) \o OriginalPart(k + 1)

\* The names of the requested flags not present in the original line, as requested.
RECURSIVE RequestedAbsent(_)
RequestedAbsent(k) ==
    IF k > Len(cmdIn.flagsToAdd) THEN <<>>
    ELSE (IF cmdIn.flagsToAdd[k].name \in OriginalFlagNames THEN <<>> ELSE <<cmdIn.flagsToAdd[k].name>>)
         \o RequestedAbsent(k + 1)

\* The names of the flags in a part of the line, in order.
RECURSIVE FlagNamesIn(_)
FlagNamesIn(line) ==
    IF line = <<>> THEN <<>>
    ELSE (IF Head(line).tok = "flag" THEN <<Head(line).text>> ELSE <<>>) \o FlagNamesIn(Tail(line))

\* The part of the returned line behind the command and the original elements.
AppendedPart == SubSeq(cmdOut.args, 2 + Len(OriginalPart(1)), Len(cmdOut.args))

\* C12 as claimed: for a parsable line and any requested flags the function
\* returns a line that starts with the command and the original elements,
\* followed by exactly the requested flags whose name is not a flag of the
\* original line, once each and in the order requested.
C12_AppendsExactlyTheAbsentFlags ==
    (cmdOut.outcome # "not called" /\ ~cmdIn.parseErr) =>
        /\ cmdOut.outcome = "returned"
        /\ Len(cmdOut.args) >= 1 + Len(OriginalPart(1))
        /\ SubSeq(cmdOut.args, 1, 1 + Len(OriginalPart(1))) = <<FullCommand(cmdIn.selected)>> \o OriginalPart(1)
        /\ FlagNamesIn(AppendedPart) = RequestedAbsent(1)

\* The line has --token, the caller asks for token twice and for
\* advertise-addr: token is appended although the line has it.
C12_Witness ==
    /\ cmdOut.outcome = "returned"
    /\ FlagNamesIn(OriginalPart(1)) = <<"token">>
    /\ Len(cmdIn.flagsToAdd) = 3
    /\ cmdIn.flagsToAdd[1].name = "token"
    /\ cmdIn.flagsToAdd[2].name = "token"
    /\ cmdIn.flagsToAdd[3].name = "advertise-addr"
    /\ FlagNamesIn(AppendedPart) = <<"token", "advertise-addr">>

\* How the claim has one flag of the line: bare when boolean, with its quoted
\* value otherwise.
ClaimedFlag(name, value) ==
    IF name \in BoolFlags THEN <<DashDash(name)>> ELSE <<DashDash(name), Quote(value)>>

\* The original elements as the claim has them.
RECURSIVE ClaimedOriginal(_)
ClaimedOriginal(k) ==
    IF k > Len(cmdIn.elements) THEN <<>>
    ELSE (LET el == cmdIn.elements[k]
          IN  IF el.clause = "flag" THEN ClaimedFlag(el.name, el.value)
              ELSE IF el.clause = "arg" THEN <<Quote(el.value)>>
              ELSE <<>>)
         \o ClaimedOriginal(k + 1)

\* In a run of appended flags every boolean flag stands bare and every other
\* flag is followed by a quoted value.
FlagsWellFormed(line) ==
    \A k \in DOMAIN line :
        line[k].tok = "flag" =>
            IF line[k].text \in BoolFlags
            THEN k = Len(line) \/ line[k + 1].tok = "flag"
            ELSE k < Len(line) /\ line[k + 1].tok = "quoted"

\* C13 as claimed: in the returned line every boolean flag is emitted bare,
\* with no value element behind it, and every other flag as --name followed by
\* its quoted value, for the flags of the original line and for the added ones.
C13_BooleanFlagsBare ==
    cmdOut.outcome = "returned" =>
        /\ Len(cmdOut.args) >= 1 + Len(ClaimedOriginal(1))
        /\ SubSeq(cmdOut.args, 2, 1 + Len(ClaimedOriginal(1))) = ClaimedOriginal(1)
        /\ FlagsWellFormed(AppendedPart)

\* The spec's scenario: install --token with insecure=true requested; the
\* returned line ends with --insecure and the quoted value "true".
C13_Witness ==
    /\ cmdOut.outcome = "returned"
    /\ FlagNamesIn(OriginalPart(1)) = <<"token">>
    /\ cmdIn.flagsToAdd = <<[name |-> "insecure", value |-> "true"]>>
    /\ AppendedPart = <<DashDash("insecure"), Quote("true")>>

\* C23 as claimed: the call completes without a run-time fault for every
\* input and leaves the caller's flagsToAdd as it was: the same flags at the
\* same places.
C23_FlagsToAddUnchanged ==
    cmdOut.outcome # "not called" =>
        /\ cmdOut.outcome # "panic"
        /\ cmdOut.callerFlags = cmdIn.flagsToAdd

\* The line has --token and the caller asks for token and advertise-addr:
\* the line is returned, and the caller's list now holds advertise-addr at
\* both places.
C23_Witness ==
    /\ cmdOut.outcome = "returned"
    /\ FlagNamesIn(OriginalPart(1)) = <<"token">>
    /\ Len(cmdIn.flagsToAdd) = 2
    /\ cmdIn.flagsToAdd[1].name = "token"
    /\ cmdIn.flagsToAdd[2].name = "advertise-addr"
    /\ cmdOut.callerFlags = <<cmdIn.flagsToAdd[2], cmdIn.flagsToAdd[2]>>

(***************************************************************************)
(* The openebs phase executor (lib/install/phases).  The Kubernetes API is  *)
(* outside the sources: the cluster is the two objects the executor works   *)
(* on, and a request either takes effect, is refused by the API for the     *)
(* state the cluster is in, or fails for a reason of its own.               *)
(***************************************************************************)

\* Bound: number of invocations of the executor on one cluster.
MaxCalls == 3

NoErr == "nil"

\* What can go wrong in one invocation of Execute besides the state of the
\* cluster: nothing, ToConfigMap fails, the namespace request fails, the
\* process is interrupted between the two requests, the configuration map
\* request fails.
ExecuteFaults == {"none", "toConfigMap", "createNamespace", "interrupt", "createConfigMap"}

\* What can go wrong in one invocation of Rollback: nothing, the delete
\* request fails.
RollbackFaults == {"none", "deleteConfigMap"}

\* Namespaces().Create(OpenEBSNamespace): the API's answer and the cluster after.
CreateNamespace(c, fault) ==
    IF fault THEN [err |-> "kube:InternalError", cluster |-> c]
    ELSE IF c.namespace THEN [err |-> "kube:AlreadyExists", cluster |-> c]
    ELSE [err |-> NoErr, cluster |-> [c EXCEPT !.namespace = TRUE]]

\* ConfigMaps(OpenEBSNamespace).Create(configMap)
CreateConfigMap(c, fault) ==
    IF fault THEN [err |-> "kube:InternalError", cluster |-> c]
    ELSE IF ~c.namespace THEN [err |-> "kube:NotFound", cluster |-> c]
    ELSE IF c.configMap THEN [err |-> "kube:AlreadyExists", cluster |-> c]
    ELSE [err |-> NoErr, cluster |-> [c EXCEPT !.configMap = TRUE]]

\* ConfigMaps(OpenEBSNamespace).Delete(OpenEBSNDMMap)
DeleteConfigMap(c, fault) ==
    IF fault THEN [err |-> "kube:InternalError", cluster |-> c]
    ELSE IF ~c.configMap THEN [err |-> "kube:NotFound", cluster |-> c]
    ELSE [err |-> NoErr, cluster |-> [c EXCEPT !.configMap = FALSE]]

\* rigging.ConvertError: the trace error for a Kubernetes status error.
ConvertError(err) ==
    IF err = NoErr THEN NoErr
    ELSE IF err = "kube:NotFound" THEN "trace:NotFound"
    ELSE IF err = "kube:AlreadyExists" THEN "trace:AlreadyExists"
    ELSE "trace:Other"

\* trace.IsNotFound
IsNotFound(err) == err = "trace:NotFound"

\* (*openebs).Execute: the returned error ("interrupted" when the process
\* does not get to return) and the cluster afterwards.
openebsExecute(c, fault) ==
    IF fault = "toConfigMap" THEN [err |-> "trace:BadParameter", cluster |-> c]
    ELSE LET ns == CreateNamespace(c, fault = "createNamespace")
         IN  IF ns.err # NoErr THEN [err |-> ConvertError(ns.err), cluster |-> ns.cluster]
             ELSE IF fault = "interrupt" THEN [err |-> "interrupted", cluster |-> ns.cluster]
             ELSE LET cm == CreateConfigMap(ns.cluster, fault = "createConfigMap")
                  IN  IF cm.err # NoErr THEN [err |-> ConvertError(cm.err), cluster |-> cm.cluster]
                      ELSE [err |-> NoErr, cluster |-> cm.cluster]

\* (*openebs).Rollback with a bug: a configuration map that is not there is
\* reported as an error.
openebsRollbackStrict(c, fault) ==
    LET del == DeleteConfigMap(c, fault = "deleteConfigMap")
    IN  [err |-> ConvertError(del.err), cluster |-> del.cluster]

\* (*openebs).Rollback
openebsRollback(c, fault) ==
    LET del == DeleteConfigMap(c, fault = "deleteConfigMap")
        err == ConvertError(del.err)
    IN  IF err # NoErr /\ ~IsNotFound(err)
        THEN [err |-> err, cluster |-> del.cluster]
        ELSE [err |-> NoErr, cluster |-> del.cluster]

OpenebsParked ==
    /\ cluster = [namespace |-> FALSE, configMap |-> FALSE]
    /\ calls = <<>>

\* A cluster on which the phase has not run.
OpenebsInit ==
    /\ cluster = [namespace |-> FALSE, configMap |-> FALSE]
    /\ calls = <<>>

OpenebsExecute ==
    /\ Len(calls) < MaxCalls
    /\ \E fault \in ExecuteFaults :
          LET r == openebsExecute(cluster, fault)
          IN  /\ cluster' = r.cluster
              /\ calls' = Append(calls, [op |-> "Execute", fault |-> fault, err |-> r.err,
                                         before |-> cluster, after |-> r.cluster])
    /\ UNCHANGED notOpenebsVars

OpenebsRollback ==
    /\ Len(calls) < MaxCalls
    /\ \E fault \in RollbackFaults :
          LET r == openebsRollback(cluster, fault)
          IN  /\ cluster' = r.cluster
              /\ calls' = Append(calls, [op |-> "Rollback", fault |-> fault, err |-> r.err,
                                         before |-> cluster, after |-> r.cluster])
    /\ UNCHANGED notOpenebsVars

OpenebsNext ==
    \/ OpenebsExecute
    \/ OpenebsRollback

(***************************************************************************)
(* Properties of the openebs executor                                      *)
(***************************************************************************)

\* C15: Rollback returns success when the configuration map it would delete
\* does not exist, and returns an error whenever the delete fails otherwise;
\* when the delete succeeds it returns success and the map is gone.
C15_RollbackNotFoundIsSuccess ==
    \A i \in DOMAIN calls :
        calls[i].op = "Rollback" =>
            /\ (calls[i].fault = "none" /\ ~calls[i].before.configMap) =>
                  (calls[i].err = NoErr /\ calls[i].after = calls[i].before)
            /\ calls[i].fault = "deleteConfigMap" =>
                  (calls[i].err \notin {NoErr, "trace:NotFound"} /\ calls[i].after = calls[i].before)
            /\ (calls[i].fault = "none" /\ calls[i].before.configMap) =>
                  (calls[i].err = NoErr /\ ~calls[i].after.configMap)

\* Rollback has succeeded on a cluster without the configuration map, and has
\* returned an error for a delete that failed.
C15_Witness ==
    /\ \E i \in DOMAIN calls :
          /\ calls[i].op = "Rollback"
          /\ ~calls[i].before.configMap
          /\ calls[i].fault = "none"
          /\ calls[i].err = NoErr
    /\ \E i \in DOMAIN calls :
          /\ calls[i].op = "Rollback"
          /\ calls[i].fault = "deleteConfigMap"
          /\ calls[i].err # NoErr

\* C19 as claimed: an Execute that follows an earlier Execute, whether that
\* one failed, was interrupted at any point or completed, returns success
\* and leaves the namespace and the configuration map present (the second
\* invocation itself meets no failure of its own).
C19_ExecuteSafeToRerun ==
    \A i \in DOMAIN calls :
        (/\ i > 1
         /\ calls[i].op = "Execute"
         /\ calls[i].fault = "none"
         /\ calls[i - 1].op = "Execute") =>
            /\ calls[i].err = NoErr
            /\ calls[i].after = [namespace |-> TRUE, configMap |-> TRUE]

\* Execute was interrupted between its two requests and has been invoked
\* again: the second invocation returns the AlreadyExists error.
C19_Witness ==
    /\ Len(calls) >= 2
    /\ calls[1].op = "Execute"
    /\ calls[1].fault = "interrupt"
    /\ calls[1].after = [namespace |-> TRUE, configMap |-> FALSE]
    /\ calls[2].op = "Execute"
    /\ calls[2].fault = "none"
    /\ calls[2].err = "trace:AlreadyExists"

\* C20 as claimed: from a cluster without the namespace and the configuration
\* map, after a successful Execute followed by a successful Rollback neither
\* resource remains, and an Execute that follows succeeds.
C20_RollbackUndoesExecute ==
    \A i \in DOMAIN calls :
        (/\ i > 1
         /\ calls[i - 1].op = "Execute"
         /\ calls[i - 1].before = [namespace |-> FALSE, configMap |-> FALSE]
         /\ calls[i - 1].err = NoErr
         /\ calls[i].op = "Rollback"
         /\ calls[i].err = NoErr) =>
            /\ calls[i].after = [namespace |-> FALSE, configMap |-> FALSE]
            /\ (/\ i < Len(calls)
                /\ calls[i + 1].op = "Execute"
                /\ calls[i + 1].fault = "none") => calls[i + 1].err = NoErr

\* Execute, Rollback and Execute again on a fresh cluster, none meeting a
\* failure of its own: the namespace has survived the rollback and the
\* second Execute returns the AlreadyExists error.
C20_Witness ==
    /\ Len(calls) = 3
    /\ calls[1].op = "Execute" /\ calls[1].err = NoErr
    /\ calls[1].before = [namespace |-> FALSE, configMap |-> FALSE]
    /\ calls[2].op = "Rollback" /\ calls[2].err = NoErr
    /\ calls[2].after = [namespace |-> TRUE, configMap |-> FALSE]
    /\ calls[3].op = "Execute" /\ calls[3].fault = "none"
    /\ calls[3].err = "trace:AlreadyExists"

(***************************************************************************)
(* Node disk manager configuration (lib/storage/persistentstorage.go).  A   *)
(* string is a sequence of pieces, each the separator "," or a text without *)
(* a comma; the empty string is the empty sequence.                         *)
(***************************************************************************)

\* Bound: number of entries of one include or exclude list of the resource.
MaxItems == 2

Comma == ","

\* The comma-free strings the lists of a resource are made of.
StorageItems == {<<"/mnt">>, <<"sdb">>}

StorageLists == SeqsOf(StorageItems, MaxItems)

\* strings.Join(list, ",")
RECURSIVE Join(_)
Join(list) ==
    IF list = <<>> THEN <<>>
    ELSE IF Len(list) = 1 THEN list[1]
    ELSE list[1] \o <<Comma>> \o Join(Tail(list))

\* strings.Split(text, ","): "" splits into one empty string.
RECURSIVE Split(_)
Split(text) ==
    IF \A i \in DOMAIN text : text[i] # Comma THEN <<text>>
    ELSE LET i == CHOOSE j \in DOMAIN text :
                      text[j] = Comma /\ \A k \in 1..(j - 1) : text[k] # Comma
         IN  <<SubSeq(text, 1, i - 1)>> \o Split(SubSeq(text, i + 1, Len(text)))

defaultMountExcludes == <<<<"/">>, <<"/etc/hosts">>, <<"/boot">>>>

defaultVendorExcludes == <<<<"CLOUDBYT">>, <<"OpenEBS">>>>

defaultDeviceExcludes == <<<<"loop">>, <<"/dev/fd0">>, <<"/dev/sr0">>, <<"/dev/ram">>, <<"/dev/dm-">>, <<"/dev/md">>>>

\* NDMFilter{}
EmptyFilter == [Key |-> "", Include |-> <<>>, Exclude |-> <<>>]

\* DefaultNDMConfig().FilterConfigs
DefaultNDMConfig ==
    << [Key |-> "os-disk-exclude-filter", Include |-> <<>>, Exclude |-> Join(defaultMountExcludes)],
       [Key |-> "vendor-filter", Include |-> <<>>, Exclude |-> Join(defaultVendorExcludes)],
       [Key |-> "path-filter", Include |-> <<>>, Exclude |-> Join(defaultDeviceExcludes)] >>

\* c.getFilter(key): a pointer to the loop variable `filter`, which holds a
\* copy of the first element with the key, or to a new NDMFilter{}.
getFilter(c, key) ==
    IF \E i \in DOMAIN c : c[i].Key = key
    THEN LET i == CHOOSE j \in DOMAIN c : c[j].Key = key /\ \A k \in 1..(j - 1) : c[k].Key # key
         IN  [target |-> "loop variable", index |-> i, filter |-> c[i]]
    ELSE [target |-> "new", index |-> 0, filter |-> EmptyFilter]

\* ptr.Exclude = text and ptr.Include = text: the configuration after the
\* store through the pointer.
StoreExclude(c, ptr, text) ==
    IF ptr.target = "element" THEN [c EXCEPT ![ptr.index].Exclude = text] ELSE c

StoreInclude(c, ptr, text) ==
    IF ptr.target = "element" THEN [c EXCEPT ![ptr.index].Include = text] ELSE c

MountExcludes(c) == Split(getFilter(c, "os-disk-exclude-filter").filter.Exclude)

SetMountExcludes(c, excludes) == StoreExclude(c, getFilter(c, "os-disk-exclude-filter"), Join(excludes))

VendorExcludes(c) == Split(getFilter(c, "vendor-filter").filter.Exclude)

SetVendorExcludes(c, excludes) == StoreExclude(c, getFilter(c, "vendor-filter"), Join(excludes))

VendorIncludes(c) == Split(getFilter(c, "vendor-filter").filter.Include)

SetVendorIncludes(c, includes) == StoreInclude(c, getFilter(c, "vendor-filter"), Join(includes))

DeviceExcludes(c) == Split(getFilter(c, "path-filter").filter.Exclude)

SetDeviceExcludes(c, excludes) == StoreExclude(c, getFilter(c, "path-filter"), Join(excludes))

DeviceIncludes(c) == Split(getFilter(c, "path-filter").filter.Include)

SetDeviceIncludes(c, includes) == StoreInclude(c, getFilter(c, "path-filter"), Join(includes))

\* PersistentStorageV1: the lists its getters return.
PersistentStorages ==
    [MountExcludes : StorageLists,
     VendorIncludes : StorageLists, VendorExcludes : StorageLists,
     DeviceIncludes : StorageLists, DeviceExcludes : StorageLists]

\* (*NDMConfig).Apply
Apply(c, ps) ==
    LET c1 == SetMountExcludes(c, ps.MountExcludes)
        c2 == SetVendorIncludes(c1, ps.VendorIncludes)
        c3 == SetVendorExcludes(c2, ps.VendorExcludes)
        c4 == SetDeviceIncludes(c3, ps.DeviceIncludes)
    IN  SetDeviceExcludes(c4, ps.DeviceExcludes)

NdmParked ==
    /\ ndmConfig = DefaultNDMConfig
    /\ ndmResource = [MountExcludes |-> <<>>, VendorIncludes |-> <<>>, VendorExcludes |-> <<>>,
                      DeviceIncludes |-> <<>>, DeviceExcludes |-> <<>>]
    /\ ndmApplied = FALSE

\* openebs.Execute: the default configuration and the resource of the plan.
NdmInit ==
    /\ ndmConfig = DefaultNDMConfig
    /\ ndmResource \in PersistentStorages
    /\ ndmApplied = FALSE

NdmApply ==
    /\ ~ndmApplied
    /\ ndmConfig' = Apply(ndmConfig, ndmResource)
    /\ ndmApplied' = TRUE
    /\ UNCHANGED ndmResource
    /\ UNCHANGED notNdmVars

NdmNext == NdmApply

(***************************************************************************)
(* Properties of the node disk manager configuration                       *)
(***************************************************************************)

\* The configuration has the three filters the setters look for.
HasAllFilters(c) ==
    \A key \in {"os-disk-exclude-filter", "vendor-filter", "path-filter"} :
        \E i \in DOMAIN c : c[i].Key = key

\* C17 as claimed: after Apply(ps) on a configuration with the three filters
\* the getters of the configuration return the lists of the resource, for
\* every non-empty list of comma-free strings.
C17_ApplyReflectsResource ==
    (ndmApplied /\ HasAllFilters(ndmConfig)) =>
        /\ ndmResource.MountExcludes # <<>> => MountExcludes(ndmConfig) = ndmResource.MountExcludes
        /\ ndmResource.VendorIncludes # <<>> => VendorIncludes(ndmConfig) = ndmResource.VendorIncludes
        /\ ndmResource.VendorExcludes # <<>> => VendorExcludes(ndmConfig) = ndmResource.VendorExcludes
        /\ ndmResource.DeviceIncludes # <<>> => DeviceIncludes(ndmConfig) = ndmResource.DeviceIncludes
        /\ ndmResource.DeviceExcludes # <<>> => DeviceExcludes(ndmConfig) = ndmResource.DeviceExcludes

\* Apply has run with a resource whose five lists are non-empty, and the
\* configuration still returns the default mount excludes.
C17_Witness ==
    /\ ndmApplied
    /\ \A l \in {ndmResource.MountExcludes, ndmResource.VendorIncludes, ndmResource.VendorExcludes,
                 ndmResource.DeviceIncludes, ndmResource.DeviceExcludes} : Len(l) = 2
    /\ MountExcludes(ndmConfig) = defaultMountExcludes
    /\ MountExcludes(ndmConfig) # ndmResource.MountExcludes

(***************************************************************************)
(* RPC credentials (loadRPCCredentials).  An address is a sequence of       *)
(* pieces of text: an optional scheme, the labels of the host name          *)
(* separated by dots, and an optional colon and port.                       *)
(***************************************************************************)

\* Bound: number of labels of a host name.
MaxLabels == 2

Schemes == {"http://", "https://"}

HostLabels == {"node", "httpd", "local"}

Ports == {"61009"}

\* strconv.Itoa(defaults.GravitySiteNodePort)
GravitySiteNodePort == "defaults.GravitySiteNodePort"

\* The pieces in whose text "http" occurs.
PiecesWithHTTP == Schemes \cup {"httpd"}

\* The labels of a host name with the dots between them.
RECURSIVE Dotted(_)
Dotted(labels) ==
    IF Len(labels) <= 1 THEN labels
    ELSE <<labels[1], ".">> \o Dotted(Tail(labels))

HostNames == {Dotted(l) : l \in SeqsOf(HostLabels, MaxLabels) \ {<<>>}}

\* The text of an address: scheme and port may be missing ("").
Address(scheme, host, port) ==
    (IF scheme = "" THEN <<>> ELSE <<scheme>>)
    \o host
    \o (IF port = "" THEN <<>> ELSE <<":", port>>)

CredentialInputs ==
    [scheme : Schemes \cup {""}, host : HostNames, port : Ports \cup {""},
     fails : {"none", "NewBearerClient", "LoadRPCCredentials"}]

\* strings.Contains(addr, "http")
ContainsHTTP(addr) == \E i \in DOMAIN addr : addr[i] \in PiecesWithHTTP

\* utils.SplitHostPort(addr, defaultPort)
SplitHostPort(addr, defaultPort) ==
    IF \E i \in DOMAIN addr : addr[i] = ":"
    THEN LET i == CHOOSE j \in DOMAIN addr : addr[j] = ":" /\ \A k \in (j + 1)..Len(addr) : addr[k] # ":"
         IN  [host |-> SubSeq(addr, 1, i - 1), port |-> SubSeq(addr, i + 1, Len(addr))]
    ELSE [host |-> addr, port |-> <<defaultPort>>]

\* fmt.Sprintf("https://%v:%v", host, port)
HTTPSAddress(host, port) == <<"https://">> \o host \o <<":">> \o port

\* The address loadRPCCredentials creates the package client for.
ResolveAddress(addr) ==
    IF ~ContainsHTTP(addr)
    THEN LET hp == SplitHostPort(addr, GravitySiteNodePort)
         IN  HTTPSAddress(hp.host, hp.port)
    ELSE addr

\* loadRPCCredentials(ctx, addr, token)
loadRPCCredentials(in) ==
    LET addr == ResolveAddress(Address(in.scheme, in.host, in.port))
    IN  IF in.fails = "NewBearerClient"
        THEN [outcome |-> "error", addr |-> addr, loaded |-> FALSE]
        ELSE IF in.fails = "LoadRPCCredentials"
             THEN [outcome |-> "error", addr |-> addr, loaded |-> FALSE]
             ELSE [outcome |-> "credentials", addr |-> addr, loaded |-> TRUE]

CredentialsParked ==
    /\ credIn = [scheme |-> "", host |-> <<"node">>, port |-> "", fails |-> "none"]
    /\ credOut = [outcome |-> "not called", addr |-> <<>>, loaded |-> FALSE]

CredentialsInit ==
    /\ credIn \in CredentialInputs
    /\ credOut = [outcome |-> "not called", addr |-> <<>>, loaded |-> FALSE]

LoadRPCCredentials ==
    /\ credOut.outcome = "not called"
    /\ credOut' = loadRPCCredentials(credIn)
    /\ UNCHANGED credIn
    /\ UNCHANGED notCredentialsVars

CredentialsNext == LoadRPCCredentials

(***************************************************************************)
(* Properties of loadRPCCredentials                                        *)
(***************************************************************************)

\* C16 as claimed: the address is used unchanged only when it is a fully
\* qualified URL; any other address, whatever its host name, is made into
\* https://host:port with the given port or else the default node port.
C16_BareHostsAreNormalised ==
    credOut.outcome # "not called" =>
        IF credIn.scheme # ""
        THEN credOut.addr = Address(credIn.scheme, credIn.host, credIn.port)
        ELSE credOut.addr = <<"https://">> \o credIn.host \o <<":">>
                            \o <<IF credIn.port = "" THEN GravitySiteNodePort ELSE credIn.port>>

\* The bare host httpd.local, without a port: the package client has been
\* created for the address as it was given.
C16_Witness ==
    /\ credOut.outcome = "credentials"
    /\ credIn.scheme = ""
    /\ credIn.host = <<"httpd", ".", "local">>
    /\ credIn.port = ""
    /\ credOut.addr = <<"httpd", ".", "local">>

(***************************************************************************)
(* Proxy configuration (ConfigureNoProxy).  The environment gives for each  *)
(* of the two variables whether it is set and its value, a string as        *)
(* above: pieces of text with "," between the entries.                      *)
(***************************************************************************)

\* Bound: number of times the process is started from the same environment.
MaxRuns == 3

ProxyVariables == {"NO_PROXY", "no_proxy"}

\* The values a variable has when it is set: empty, or some entries.
ProxyValues == {<<>>, <<"10.0.0.0/8">>, <<"example.com">>, <<"example.com", Comma, "10.0.0.0/8">>}

Environments == [ProxyVariables -> [set : {TRUE}, value : ProxyValues] \cup {[set |-> FALSE, value |-> <<>>]}]

\* os.Getenv(k): the empty string for a variable that is not set.
Getenv(env, k) == IF env[k].set THEN env[k].value ELSE <<>>

\* os.Setenv(k, v)
Setenv(env, k, v) == [env EXCEPT ![k] = [set |-> TRUE, value |-> v]]

\* The orders in which `for k, v := range proxy` can visit the two keys of
\* the map: the language leaves the order open.
MapOrders == {<<"NO_PROXY", "no_proxy">>, <<"no_proxy", "NO_PROXY">>}

\* ConfigureNoProxy, the map being visited in the given order.
ConfigureNoProxy(env, order) ==
    LET proxy == [k \in ProxyVariables |-> Getenv(env, k)]
    IN  IF Len(proxy[order[1]]) # 0
        THEN Setenv(env, order[1], Join(<<proxy[order[1]], <<"0.0.0.0/0">>, <<".local">>>>))
        ELSE IF Len(proxy[order[2]]) # 0
             THEN Setenv(env, order[2], Join(<<proxy[order[2]], <<"0.0.0.0/0">>, <<".local">>>>))
             ELSE Setenv(env, "NO_PROXY", Join(<<<<"0.0.0.0/0">>, <<".local">>>>))

ProxyParked ==
    /\ initialEnv = [k \in ProxyVariables |-> [set |-> FALSE, value |-> <<>>]]
    /\ runs = <<>>

ProxyInit ==
    /\ initialEnv \in Environments
    /\ runs = <<>>

\* The process is started with the initial environment and configures it.
RunConfigureNoProxy ==
    /\ Len(runs) < MaxRuns
    /\ \E order \in MapOrders : runs' = Append(runs, ConfigureNoProxy(initialEnv, order))
    /\ UNCHANGED initialEnv
    /\ UNCHANGED notProxyVars

ProxyNext == RunConfigureNoProxy

(***************************************************************************)
(* Properties of ConfigureNoProxy                                          *)
(***************************************************************************)

\* The value the HTTP proxy detection uses: NO_PROXY when it is not empty,
\* no_proxy otherwise.
DetectedNoProxy(env) ==
    IF Getenv(env, "NO_PROXY") # <<>> THEN Getenv(env, "NO_PROXY") ELSE Getenv(env, "no_proxy")

\* The entries of a value.
Entries(value) == IF value = <<>> THEN <<>> ELSE Split(value)

IsPrefixOf(a, b) == Len(a) <= Len(b) /\ SubSeq(b, 1, Len(a)) = a

HasEntry(value, entry) == \E i \in DOMAIN Entries(value) : Entries(value)[i] = <<entry>>

\* C18 as claimed: whatever the two variables are at the start, after
\* ConfigureNoProxy the value the proxy detection uses has the entries
\* 0.0.0.0/0 and .local, and the entries of the value it used before; and
\* every run from the same environment ends with the same environment.
C18_NoProxyConfigured ==
    /\ \A i \in DOMAIN runs :
          /\ HasEntry(DetectedNoProxy(runs[i]), "0.0.0.0/0")
          /\ HasEntry(DetectedNoProxy(runs[i]), ".local")
          /\ IsPrefixOf(Entries(DetectedNoProxy(initialEnv)), Entries(DetectedNoProxy(runs[i])))
    /\ \A i, j \in DOMAIN runs : runs[i] = runs[j]

\* Both variables are set and not empty, and two runs have changed different
\* variables: after one of them NO_PROXY is as it was.
C18_Witness ==
    /\ Getenv(initialEnv, "NO_PROXY") = <<"10.0.0.0/8">>
    /\ Getenv(initialEnv, "no_proxy") = <<"example.com">>
    /\ Len(runs) >= 2
    /\ runs[1] # runs[2]
    /\ DetectedNoProxy(runs[2]) = <<"10.0.0.0/8">>

(***************************************************************************)
(* Properties of the plan engine                                           *)
(***************************************************************************)

\* C2: a phase is moved to InProgress, and its PreCheck begins, only while
\* every declared dependency is persisted as Completed, also when independent
\* phases execute concurrently and in resumed runs.
C2_StartsOnlyAfterDeps ==
    /\ [](\A p \in Phases : task[p] = "precheck" => DepsCompleted(p))
    /\ [][\A p \in Phases :
            (task[p] = "none" /\ task'[p] # "none" /\ phaseState'[p] = "InProgress")
                => (\A d \in deps[p] : phaseState[d] = "Completed" /\ phaseState'[d] = "Completed")]_vars

\* A phase with a dependency is in PreCheck of a resumed run while another
\* phase is executing.
C2_Witness ==
    /\ runKind = "resumeAfterCrash"
    /\ \E p, q \in Phases :
          /\ p # q
          /\ deps[p] # {}
          /\ task[p] = "precheck"
          /\ task[q] = "execute"

\* The transitions the data model's invariant allows.
ClaimedTransitions ==
    { <<"Unstarted", "InProgress">>, <<"InProgress", "Completed">>,
      <<"InProgress", "Failed">>, <<"Failed", "RolledBack">> }

\* The transitions the engine makes: a retried Failed phase re-enters
\* InProgress, and the rollback walk also marks Completed phases RolledBack.
EngineTransitions ==
    ClaimedTransitions \cup { <<"Failed", "InProgress">>, <<"Completed", "RolledBack">> }

RollbackSet == {p \in Phases : snapshot[p] \in {"Completed", "Failed"}}

\* C4: the rollback walk invokes Rollback of every Completed or Failed phase
\* exactly once, last finished first, so a phase is rolled back only after
\* every phase that depended on it has been attempted, and an error of one
\* Rollback does not stop the walk.
C4_RollbackReverseOrder ==
    engineMode \in {"rollback", "unwound"} =>
        /\ \A i, j \in DOMAIN rollbackLog : i # j => rollbackLog[i] # rollbackLog[j]
        /\ Range(rollbackLog) \subseteq RollbackSet
        /\ engineMode = "unwound" => Range(rollbackLog) = RollbackSet
        /\ rollbackErrors \subseteq Range(rollbackLog)
        /\ \A i, j \in DOMAIN rollbackLog :
              i < j => IndexOf(finishOrder, rollbackLog[i]) > IndexOf(finishOrder, rollbackLog[j])
        /\ \A p \in Range(rollbackLog) : \A q \in RollbackSet :
              p \in deps[q] => (q \in Range(rollbackLog) /\ IndexOf(rollbackLog, q) < IndexOf(rollbackLog, p))

\* The chain 1 <- 2 <- 3, all Completed: the walk went 3, 2, 1 although the
\* Rollback of 2 returned an error.
C4_Witness ==
    /\ engineMode = "unwound"
    /\ deps[2] = {1}
    /\ deps[3] = {2}
    /\ \A p \in {1, 2, 3} : snapshot[p] = "Completed"
    /\ SubSeq(rollbackLog, 1, 3) = <<3, 2, 1>>
    /\ rollbackErrors = {2}

IsResumeRun == runKind \in {"resume", "resumeAfterCrash"}

NotCompletedAtStart == {p \in Phases : snapshot[p] # "Completed"}

ToolsParked == CommandParked /\ OpenebsParked /\ NdmParked /\ CredentialsParked /\ ProxyParked

InitWatch == WatchParked /\ EngineParked /\ ResolverParked /\ ClassifierParked /\ ToolsParked

SpecWatch == InitWatch /\ [][WatchNext]_vars

\* The Go scheduler runs a goroutine that is able to take a step; nothing
\* obliges the RPC layer to send or close, nor the caller to cancel.
WatchFairness ==
    /\ WF_vars(WatchReconnects)
    /\ WF_vars(ReceiveEvent)
    /\ WF_vars(ReceiveClosed)

SpecWatchFair == InitWatch /\ [][WatchNext]_vars /\ WatchFairness

InitEngine == EngineInit /\ WatchParked /\ ResolverParked /\ ClassifierParked /\ ToolsParked

SpecEngine == InitEngine /\ [][EngineNext]_vars

InitResolver == ResolverInit /\ WatchParked /\ EngineParked /\ ClassifierParked /\ ToolsParked

SpecResolver == InitResolver /\ [][ResolverNext]_vars

InitClassifier == ClassifierInit /\ WatchParked /\ EngineParked /\ ResolverParked /\ ToolsParked

SpecClassifier == InitClassifier /\ [][ClassifierNext]_vars

InitCommand == CommandInit /\ WatchParked /\ EngineParked /\ ResolverParked /\ ClassifierParked /\ OpenebsParked /\ NdmParked /\ CredentialsParked /\ ProxyParked

SpecCommand == InitCommand /\ [][CommandNext]_vars

InitOpenebs == OpenebsInit /\ WatchParked /\ EngineParked /\ ResolverParked /\ ClassifierParked /\ CommandParked /\ NdmParked /\ CredentialsParked /\ ProxyParked

SpecOpenebs == InitOpenebs /\ [][OpenebsNext]_vars

InitNdm == NdmInit /\ WatchParked /\ EngineParked /\ ResolverParked /\ ClassifierParked /\ CommandParked /\ OpenebsParked /\ CredentialsParked /\ ProxyParked

SpecNdm == InitNdm /\ [][NdmNext]_vars

InitCredentials == CredentialsInit /\ WatchParked /\ EngineParked /\ ResolverParked /\ ClassifierParked /\ CommandParked /\ OpenebsParked /\ NdmParked /\ ProxyParked

SpecCredentials == InitCredentials /\ [][CredentialsNext]_vars

InitProxy == ProxyInit /\ WatchParked /\ EngineParked /\ ResolverParked /\ ClassifierParked /\ CommandParked /\ OpenebsParked /\ NdmParked /\ CredentialsParked

SpecProxy == InitProxy /\ [][ProxyNext]_vars

====
